---- MODULE Spec2Model ----
(***************************************************************************)
(* A model of the LearnPage component (frontend/src/pages/LearnPage.js):   *)
(* the draft, the message sequence, the loading and error flags, the      *)
(* dictation session and its timer, the requests to the archive endpoint  *)
(* and the paginated document export.                                      *)
(*                                                                         *)
(* Text is a sequence of characters.  The three fixed texts of the source  *)
(* (welcome, fallback, error) are written as one token each; nothing in    *)
(* the component looks inside them.  A message is [role, content]; its     *)
(* timestamp is left out: no handler reads it except to print it.          *)
(* The 100 ms focus timers and the notification element change only the    *)
(* DOM (focus, a toast) and no state of the component; they are left out.  *)
(***************************************************************************)
EXTENDS Integers, Sequences, FiniteSets, TLC

VARIABLES
    mounted,           \* the mount effects (lines 18-69, 101-107) have run
    query,             \* useState('')      line 7
    messages,          \* useState([])      line 8
    loading,           \* useState(false)   line 9
    error,             \* useState(null)    line 10
    isRecordingLearn,  \* useState(false)   line 11
    recognitionLearn,  \* useState(null)    line 12: "null" or "instance"
    recState,          \* the browser's SpeechRecognition session
    autoStop,          \* pending 3000 ms timers: the flag each closure captured
    inflight,          \* handleSubmit invocations suspended at an await
    lastSubmit,        \* how the last handleSubmit call ended (observation)
    pdfInput,          \* export: lines.length of each message (line 221)
    pdfDoc             \* export: the loop position, the cursor, the last write

vars == <<mounted, query, messages, loading, error, isRecordingLearn,
          recognitionLearn, recState, autoStop, inflight, lastSubmit,
          pdfInput, pdfDoc>>

compVars == <<mounted, query, messages, loading, error, isRecordingLearn,
              recognitionLearn, recState, autoStop, inflight, lastSubmit>>

pdfVars == <<pdfInput, pdfDoc>>

(***************************************************************************)
(* Bounds.                                                                 *)
(***************************************************************************)
MaxMsgs == 5       \* a submit is taken only while its reply still fits
MaxTimers == 1     \* pending auto-stop timers
MaxPdfMsgs == 2    \* messages of an exported conversation
MaxLines == 80     \* wrapped lines of the longest exported message

(***************************************************************************)
(* Text.                                                                   *)
(***************************************************************************)
Null == "null"

WelcomeText == <<"Welcome to the Gopher Archive Learning Portal...">>

FallbackText == <<"No response from archive.">>

ErrorText == "Unable to connect to archive. Please try again."

IsSpace(c) == c = " "

RECURSIVE TrimStart(_)
TrimStart(s) ==
    IF s # <<>> /\ IsSpace(Head(s)) THEN TrimStart(Tail(s)) ELSE s

RECURSIVE TrimEnd(_)
TrimEnd(s) ==
    IF s # <<>> /\ IsSpace(s[Len(s)])
    THEN TrimEnd(SubSeq(s, 1, Len(s) - 1))
    ELSE s

\* String.prototype.trim
Trim(s) == TrimEnd(TrimStart(s))

\* !query: the test without the trim
BlankNoTrim(s) == s = <<>>

\* !query.trim(): the empty string is the only falsy string
Blank(s) == Trim(s) = <<>>

\* the texts the user types or dictates
Drafts == { <<>>, <<" ">>, <<"a">>, <<" ", "a">> }

\* response bodies: not JSON, no response field, response "", response "b"
NoBody == [valid |-> FALSE, has |-> FALSE, response |-> <<>>]

Bodies ==
    { NoBody,
      [valid |-> TRUE, has |-> FALSE, response |-> <<>>],
      [valid |-> TRUE, has |-> TRUE, response |-> <<>>],
      [valid |-> TRUE, has |-> TRUE, response |-> <<"b">>] }

UserMessage(text) == [role |-> "user", content |-> text]

AssistantMessage(text) == [role |-> "assistant", content |-> text]

\* [...prev, msg]
PrependMessage(prev, msg) == <<msg>> \o prev

AppendMessage(prev, msg) == Append(prev, msg)

\* data.response || 'No response from archive.'
ReplyContentAbsentOnly(data) == IF data.has THEN data.response ELSE FallbackText

ReplyContent(data) ==
    IF data.has /\ data.response # <<>> THEN data.response ELSE FallbackText

RemoveAt(s, i) == SubSeq(s, 1, i - 1) \o SubSeq(s, i + 1, Len(s))

IsPrefix(s, t) == Len(s) <= Len(t) /\ SubSeq(t, 1, Len(s)) = s

(***************************************************************************)
(* Construction and mount.                                                 *)
(***************************************************************************)
Init ==
    /\ mounted = FALSE
    /\ query = <<>>
    /\ messages = <<>>
    /\ loading = FALSE
    /\ error = Null
    /\ isRecordingLearn = FALSE
    /\ recognitionLearn = "null"
    /\ recState = "idle"
    /\ autoStop = <<>>
    /\ inflight = <<>>
    /\ lastSubmit = "none"
    /\ pdfInput = <<>>
    /\ pdfDoc = [pc |-> "idle"]

\* both mount effects run in the same commit, before any event is handled
Mount ==
    /\ ~mounted
    /\ mounted' = TRUE
    /\ messages' = <<AssistantMessage(WelcomeText)>>
    /\ \E r \in {"null", "instance"} : recognitionLearn' = r
    /\ UNCHANGED <<query, loading, error, isRecordingLearn, recState,
                   autoStop, inflight, lastSubmit, pdfVars>>

(***************************************************************************)
(* The SpeechRecognition session: idle, listening, stopping (stop() was    *)
(* called: one final result may still come), ending (only onend is left).  *)
(***************************************************************************)
\* recognition.stop(): a no-op unless the session is listening
StopSession(s) == IF s = "listening" THEN "stopping" ELSE s

\* the loop of onresult over event.results, from event.resultIndex
RECURSIVE FinalTranscript(_)
FinalTranscript(results) ==
    IF results = <<>> THEN <<>>
    ELSE (IF Head(results).isFinal THEN Head(results).transcript ELSE <<>>)
         \o FinalTranscript(Tail(results))

RECURSIVE InterimTranscript(_)
InterimTranscript(results) ==
    IF results = <<>> THEN <<>>
    ELSE (IF Head(results).isFinal THEN <<>> ELSE Head(results).transcript)
         \o InterimTranscript(Tail(results))

\* continuous = false: an event carries one result
ResultEvents ==
    { <<[transcript |-> t, isFinal |-> f]>> : t \in Drafts, f \in BOOLEAN }

HasFinal(results) == \E i \in DOMAIN results : results[i].isFinal

OnResult(results) ==
    /\ mounted
    /\ \/ recState = "listening"
       \/ recState = "stopping" /\ HasFinal(results)
    /\ query' = IF FinalTranscript(results) # <<>>
                THEN FinalTranscript(results)
                ELSE IF InterimTranscript(results) # <<>>
                     THEN InterimTranscript(results)
                     ELSE query
    /\ recState' = IF HasFinal(results) THEN "ending" ELSE recState
    /\ UNCHANGED <<mounted, messages, loading, error, isRecordingLearn,
                   recognitionLearn, autoStop, inflight, lastSubmit, pdfVars>>

OnEnd ==
    /\ mounted
    /\ recState # "idle"
    /\ recState' = "idle"
    /\ isRecordingLearn' = FALSE
    /\ UNCHANGED <<mounted, query, messages, loading, error,
                   recognitionLearn, autoStop, inflight, lastSubmit, pdfVars>>

\* an error event is followed by the end event
OnError ==
    /\ mounted
    /\ recState \in {"listening", "stopping"}
    /\ recState' = "ending"
    /\ isRecordingLearn' = FALSE
    /\ UNCHANGED <<mounted, query, messages, loading, error,
                   recognitionLearn, autoStop, inflight, lastSubmit, pdfVars>>

\* the value of isRecordingLearn the timer's closure holds: that of the
\* render the handler belongs to
CapturedFlag(flag) == flag

ToggleMicrophoneLearn ==
    IF recognitionLearn = "null" \/ loading
    THEN UNCHANGED vars
    ELSE IF isRecordingLearn
         THEN /\ recState' = StopSession(recState)
              /\ isRecordingLearn' = FALSE
              /\ UNCHANGED <<mounted, query, messages, loading, error,
                             recognitionLearn, autoStop, inflight,
                             lastSubmit, pdfVars>>
         ELSE /\ isRecordingLearn' = TRUE
              /\ IF recState = "idle"
                 THEN /\ Len(autoStop) < MaxTimers
                      /\ recState' = "listening"
                      /\ autoStop' = Append(autoStop,
                                            CapturedFlag(isRecordingLearn))
                 ELSE \* start() throws InvalidStateError: no timer is set
                      UNCHANGED <<recState, autoStop>>
              /\ UNCHANGED <<mounted, query, messages, loading, error,
                             recognitionLearn, inflight, lastSubmit, pdfVars>>

\* the 3000 ms callback
AutoStopTimer ==
    /\ autoStop # <<>>
    /\ autoStop' = Tail(autoStop)
    /\ recState' = IF Head(autoStop) THEN StopSession(recState) ELSE recState
    /\ UNCHANGED <<mounted, query, messages, loading, error,
                   isRecordingLearn, recognitionLearn, inflight, lastSubmit,
                   pdfVars>>

(***************************************************************************)
(* handleSubmit and the continuation of each of its awaits.                *)
(***************************************************************************)
\* lines 114-134: up to the fetch call, where the invocation suspends
HandleSubmitUntrimmed ==
    IF BlankNoTrim(query)
    THEN /\ lastSubmit' = "ignored"
         /\ UNCHANGED <<mounted, query, messages, loading, error,
                        isRecordingLearn, recognitionLearn, recState,
                        autoStop, inflight, pdfVars>>
    ELSE /\ Len(messages) + 2 <= MaxMsgs
         /\ recState' = IF isRecordingLearn THEN StopSession(recState)
                        ELSE recState
         /\ messages' = AppendMessage(messages, UserMessage(query))
         /\ query' = <<>>
         /\ loading' = TRUE
         /\ error' = Null
         /\ inflight' = Append(inflight,
                 [query |-> query, stage |-> "fetch", body |-> NoBody])
         /\ lastSubmit' = "accepted"
         /\ UNCHANGED <<mounted, isRecordingLearn, recognitionLearn,
                        autoStop, pdfVars>>

HandleSubmitKeepsDraft ==
    IF Blank(query)
    THEN /\ lastSubmit' = "ignored"
         /\ UNCHANGED <<mounted, query, messages, loading, error,
                        isRecordingLearn, recognitionLearn, recState,
                        autoStop, inflight, pdfVars>>
    ELSE /\ Len(messages) + 2 <= MaxMsgs
         /\ recState' = IF isRecordingLearn THEN StopSession(recState)
                        ELSE recState
         /\ messages' = AppendMessage(messages, UserMessage(Trim(query)))
         /\ loading' = TRUE
         /\ error' = Null
         /\ inflight' = Append(inflight,
                 [query |-> query, stage |-> "fetch", body |-> NoBody])
         /\ lastSubmit' = "accepted"
         /\ UNCHANGED <<mounted, query, isRecordingLearn, recognitionLearn,
                        autoStop, pdfVars>>

HandleSubmit ==
    IF Blank(query)
    THEN /\ lastSubmit' = "ignored"
         /\ UNCHANGED <<mounted, query, messages, loading, error,
                        isRecordingLearn, recognitionLearn, recState,
                        autoStop, inflight, pdfVars>>
    ELSE /\ Len(messages) + 2 <= MaxMsgs
         /\ recState' = IF isRecordingLearn THEN StopSession(recState)
                        ELSE recState
         /\ messages' = AppendMessage(messages, UserMessage(query))
         /\ query' = <<>>
         /\ loading' = TRUE
         /\ error' = Null
         /\ inflight' = Append(inflight,
                 [query |-> query, stage |-> "fetch", body |-> NoBody])
         /\ lastSubmit' = "accepted"
         /\ UNCHANGED <<mounted, isRecordingLearn, recognitionLearn,
                        autoStop, pdfVars>>

\* finally { setLoading(false) }: the invocation ends
FinallyKeepsLoading(i) ==
    /\ inflight' = RemoveAt(inflight, i)
    /\ UNCHANGED loading

Finally(i) ==
    /\ loading' = FALSE
    /\ inflight' = RemoveAt(inflight, i)

\* catch (err) { setError(...) } finally { ... }
CatchAppendsMessage(i) ==
    /\ error' = ErrorText
    /\ messages' = AppendMessage(messages, AssistantMessage(FallbackText))
    /\ Finally(i)
    /\ UNCHANGED <<mounted, query, isRecordingLearn, recognitionLearn,
                   recState, autoStop, lastSubmit, pdfVars>>

Catch(i) ==
    /\ error' = ErrorText
    /\ Finally(i)
    /\ UNCHANGED <<mounted, query, messages, isRecordingLearn,
                   recognitionLearn, recState, autoStop, lastSubmit, pdfVars>>

\* the fetch promise rejects (no connection)
FetchRejects(i) ==
    /\ i \in DOMAIN inflight
    /\ inflight[i].stage = "fetch"
    /\ Catch(i)

\* the fetch promise resolves with !response.ok: line 136 throws
FetchNotOk(i) ==
    /\ i \in DOMAIN inflight
    /\ inflight[i].stage = "fetch"
    /\ Catch(i)

\* the fetch promise resolves with response.ok: suspended at response.json()
FetchOk(i, body) ==
    /\ i \in DOMAIN inflight
    /\ inflight[i].stage = "fetch"
    /\ inflight' = [inflight EXCEPT ![i].stage = "json", ![i].body = body]
    /\ UNCHANGED <<mounted, query, messages, loading, error,
                   isRecordingLearn, recognitionLearn, recState, autoStop,
                   lastSubmit, pdfVars>>

\* response.json() resolves: lines 138-146, then finally
JsonParsed(i) ==
    /\ i \in DOMAIN inflight
    /\ inflight[i].stage = "json"
    /\ inflight[i].body.valid
    /\ messages' = AppendMessage(messages,
                       AssistantMessage(ReplyContent(inflight[i].body)))
    /\ Finally(i)
    /\ UNCHANGED <<mounted, query, error, isRecordingLearn,
                   recognitionLearn, recState, autoStop, lastSubmit, pdfVars>>

\* response.json() rejects: the body is not JSON
JsonFails(i) ==
    /\ i \in DOMAIN inflight
    /\ inflight[i].stage = "json"
    /\ ~inflight[i].body.valid
    /\ Catch(i)

(***************************************************************************)
(* The rendered controls: each is an event only while it is enabled.       *)
(***************************************************************************)
\* <input disabled={loading}>
InputEnabledAlways == TRUE

InputEnabled == ~loading

\* <button type="submit" disabled={loading || !query.trim()}>
AskEnabled == ~(loading \/ Blank(query))

\* <button onClick={toggleMicrophoneLearn} disabled={loading || !recognitionLearn}>
MicEnabled == ~(loading \/ recognitionLearn = "null")

\* the COPY TEXT and DOWNLOAD PDF buttons: disabled={messages.length <= 1}
ExportEnabled == ~(Len(messages) <= 1)

\* onChange={(e) => setQuery(e.target.value)}
ChangeInput(text) ==
    /\ mounted
    /\ InputEnabled
    /\ query' = text
    /\ UNCHANGED <<mounted, messages, loading, error, isRecordingLearn,
                   recognitionLearn, recState, autoStop, inflight,
                   lastSubmit, pdfVars>>

\* handleKeyPress: Enter without Shift in the input
PressEnter == mounted /\ InputEnabled /\ HandleSubmit

\* the form's onSubmit, from the ASK button
ClickAsk == mounted /\ AskEnabled /\ HandleSubmit

ClickMic == mounted /\ MicEnabled /\ ToggleMicrophoneLearn

\* handleCopyText, handleDownloadPDF: they read messages; what they produce
\* goes to the clipboard and to a file
ClickExport ==
    /\ mounted
    /\ ExportEnabled
    /\ UNCHANGED vars

\* handleSubmit invoked on the form's submit event however it is dispatched
CallSubmit == mounted /\ HandleSubmit

Network ==
    \E i \in DOMAIN inflight :
        \/ FetchRejects(i)
        \/ FetchNotOk(i)
        \/ \E body \in Bodies : FetchOk(i, body)
        \/ JsonParsed(i)
        \/ JsonFails(i)

Next ==
    \/ Mount
    \/ \E text \in Drafts : ChangeInput(text)
    \/ PressEnter
    \/ ClickAsk
    \/ ClickMic
    \/ ClickExport
    \/ \E i \in DOMAIN inflight : FetchRejects(i)
    \/ \E i \in DOMAIN inflight : FetchNotOk(i)
    \/ \E i \in DOMAIN inflight : \E body \in Bodies : FetchOk(i, body)
    \/ \E i \in DOMAIN inflight : JsonParsed(i)
    \/ \E i \in DOMAIN inflight : JsonFails(i)
    \/ \E results \in ResultEvents : OnResult(results)
    \/ OnEnd
    \/ OnError
    \/ AutoStopTimer

Spec == Init /\ [][Next]_vars

\* every request settles: the proviso under which Pending is left
FairSpec == Spec /\ WF_vars(Network)

NextCall == Next \/ CallSubmit

SpecCall == Init /\ [][NextCall]_vars

(***************************************************************************)
(* handleDownloadPDF: the vertical cursor and the writes.  new jsPDF() is  *)
(* an A4 portrait page in millimetres; splitTextToSize gives at least one  *)
(* line for any content.                                                   *)
(***************************************************************************)
PageHeight == 297

Margin == 20

LineHeight == 7

HeadGap == 10

MessageGap == 5

\* if (yPosition > pageHeight - margin)
NeedNewPageNoMargin(y) == y > PageHeight

NeedNewPage(y) == y > PageHeight - Margin

\* one doc.text at the cursor
Write(kind, page, y) == [kind |-> kind, page |-> page, y |-> y]

\* if (yPosition > pageHeight - margin) { doc.addPage(); yPosition = margin; }
CursorAfterCheck(y) == IF NeedNewPage(y) THEN Margin ELSE y

PageAfterCheck(y, page) == IF NeedNewPage(y) THEN page + 1 ELSE page

LineCounts == {1, 2, 3, 31, 32, 33, MaxLines - 1, MaxLines}

RECURSIVE SeqsOf(_, _)
SeqsOf(S, n) ==
    IF n = 0 THEN {<<>>}
    ELSE {Append(s, x) : s \in SeqsOf(S, n - 1), x \in S}

\* the button is enabled from two messages on
PdfInputs == UNION {SeqsOf(LineCounts, n) : n \in 2..MaxPdfMsgs}

PdfIdle == [pc |-> "idle", y |-> 0, page |-> 0, msg |-> 0, line |-> 0,
            last |-> Write("none", 0, 0)]

\* the exported conversation is given by pdfInput; the export reads nothing
\* else of the component, whose state stays as it is throughout
InitPDF ==
    /\ mounted = TRUE
    /\ query = <<>>
    /\ messages = <<>>
    /\ loading = FALSE
    /\ error = Null
    /\ isRecordingLearn = FALSE
    /\ recognitionLearn = "null"
    /\ recState = "idle"
    /\ autoStop = <<>>
    /\ inflight = <<>>
    /\ lastSubmit = "none"
    /\ pdfInput \in PdfInputs
    /\ pdfDoc = PdfIdle

\* lines 179-203: the title at the margin, the timestamp, the rule
PdfStart ==
    /\ pdfDoc.pc = "idle"
    /\ ~(Len(pdfInput) <= 1)
    /\ pdfDoc' = [pc |-> "header", y |-> Margin + 3 * HeadGap, page |-> 1,
                  msg |-> 1, line |-> 0,
                  last |-> Write("stamp", 1, Margin + HeadGap)]
    /\ UNCHANGED <<compVars, pdfInput>>

\* lines 208-217: the page check and the header of the next message
PdfHeader ==
    /\ pdfDoc.pc = "header"
    /\ pdfDoc.msg <= Len(pdfInput)
    /\ pdfDoc' = [pdfDoc EXCEPT
           !.pc = "line",
           !.page = PageAfterCheck(pdfDoc.y, pdfDoc.page),
           !.last = Write("header", PageAfterCheck(pdfDoc.y, pdfDoc.page),
                          CursorAfterCheck(pdfDoc.y)),
           !.y = CursorAfterCheck(pdfDoc.y) + LineHeight,
           !.line = 1]
    /\ UNCHANGED <<compVars, pdfInput>>

\* lines 222-229: the page check and one wrapped line
PdfLine ==
    /\ pdfDoc.pc = "line"
    /\ pdfDoc.line <= pdfInput[pdfDoc.msg]
    /\ pdfDoc' = [pdfDoc EXCEPT
           !.page = PageAfterCheck(pdfDoc.y, pdfDoc.page),
           !.last = Write("line", PageAfterCheck(pdfDoc.y, pdfDoc.page),
                          CursorAfterCheck(pdfDoc.y)),
           !.y = CursorAfterCheck(pdfDoc.y) + LineHeight,
           !.line = pdfDoc.line + 1]
    /\ UNCHANGED <<compVars, pdfInput>>

\* line 231: the space between messages
PdfGap ==
    /\ pdfDoc.pc = "line"
    /\ pdfDoc.line > pdfInput[pdfDoc.msg]
    /\ pdfDoc' = [pdfDoc EXCEPT !.pc = "header", !.y = pdfDoc.y + MessageGap,
                                !.msg = pdfDoc.msg + 1]
    /\ UNCHANGED <<compVars, pdfInput>>

\* lines 235-236: doc.save
PdfSave ==
    /\ pdfDoc.pc = "header"
    /\ pdfDoc.msg > Len(pdfInput)
    /\ pdfDoc' = [pdfDoc EXCEPT !.pc = "saved"]
    /\ UNCHANGED <<compVars, pdfInput>>

\* handleDownloadPDF, one doc call at a time; nothing else runs meanwhile
NextPDF ==
    \/ PdfStart
    \/ PdfHeader
    \/ PdfLine
    \/ PdfGap
    \/ PdfSave

SpecPDF == InitPDF /\ [][NextPDF]_vars

(***************************************************************************)
(* Steps named by what they do to the state.                               *)
(***************************************************************************)
\* a network call is issued
IssuedStep == Len(inflight') > Len(inflight)

\* the only request ends at the fetch await, or at a body that is not JSON
FailedStep ==
    /\ Len(inflight) = 1
    /\ inflight' = <<>>
    /\ inflight[1].stage = "fetch" \/ ~inflight[1].body.valid

\* the only request ends with the parsed payload {response: X}
PayloadStep ==
    /\ Len(inflight) = 1
    /\ inflight' = <<>>
    /\ inflight[1].stage = "json"
    /\ inflight[1].body.valid
    /\ inflight[1].body.has

LastMessage == messages[Len(messages)]

(***************************************************************************)
(* C1: while a request is pending, every call of handleSubmit leaves the   *)
(* message sequence unchanged and issues no network call, whatever the     *)
(* draft holds.                                                            *)
(***************************************************************************)
C1_SubmitWhilePendingIsNoOp ==
    [][(loading /\ inflight # <<>> /\ CallSubmit)
         => (messages' = messages /\ inflight' = inflight)]_vars

(***************************************************************************)
(* C2: through the enabled controls, network completions, dictation        *)
(* callbacks and timers, at most one request is in flight.                 *)
(***************************************************************************)
C2_AtMostOneInFlight == Len(inflight) <= 1

\* a request is pending and dictation has refilled the draft meanwhile
C2_Witness == Len(inflight) = 1 /\ loading /\ ~Blank(query)

(***************************************************************************)
(* C3: a failed request appends no message and sets the error state to     *)
(* the fixed text; the error state is then left only by the next submit    *)
(* that is taken, which clears it.                                         *)
(***************************************************************************)
C3_FailureSetsError ==
    [][/\ FailedStep => (messages' = messages /\ error' = ErrorText)
       /\ (error = ErrorText /\ error' # ErrorText)
            => (IssuedStep /\ lastSubmit' = "accepted" /\ error' = Null)
       /\ IssuedStep => error' = Null]_vars

\* a request failed after the first reply, and the next submit cleared the error
C3_Witness ==
    /\ Len(messages) >= 2
    /\ LastMessage.role = "user"
    /\ messages[Len(messages) - 1].role = "user"
    /\ loading
    /\ error = Null

(***************************************************************************)
(* C4: a successful response with payload {response: X} appends exactly    *)
(* one assistant message whose content is X, for every string X, the       *)
(* empty string included.                                                  *)
(***************************************************************************)
C4_ReplyIsPayload ==
    [][PayloadStep
         => messages' = Append(messages,
                               AssistantMessage(inflight[1].body.response))]_vars

\* C4 as amended: the content is X for every non-empty X, and the fallback
\* text when X is the empty string
C4_ReplyIsPayloadOrFallback ==
    [][PayloadStep
         => messages' = Append(messages,
                AssistantMessage(IF inflight[1].body.response # <<>>
                                 THEN inflight[1].body.response
                                 ELSE FallbackText))]_vars

\* a reply with a non-empty payload and a reply to an empty one are both shown
C4_Witness ==
    /\ ~loading
    /\ \E i \in DOMAIN messages : messages[i] = AssistantMessage(<<"b">>)
    /\ LastMessage = AssistantMessage(FallbackText)

(***************************************************************************)
(* C5: once the welcome message is seeded, every step keeps the previous   *)
(* message sequence as a prefix of the new one, and the first message is   *)
(* the welcome message.                                                    *)
(***************************************************************************)
C5_AppendOnly ==
    [][mounted => /\ IsPrefix(messages, messages')
                  /\ messages'[1] = AssistantMessage(WelcomeText)]_vars

\* a conversation with a reply, a later submit and its failure
C5_Witness ==
    /\ Len(messages) >= 4
    /\ messages[3].role = "assistant"
    /\ LastMessage.role = "user"
    /\ error = ErrorText

(***************************************************************************)
(* C6: a submit with a non-blank draft while nothing is pending appends    *)
(* exactly one user message holding that draft and clears the draft, and   *)
(* that message is in place for as long as the request is unsettled.       *)
(***************************************************************************)
C6_UserMessageFirst ==
    /\ [][((PressEnter \/ ClickAsk) /\ ~Blank(query) /\ ~loading)
            => /\ messages' = Append(messages, UserMessage(query))
               /\ query' = <<>>
               /\ inflight' = Append(inflight,
                      [query |-> query, stage |-> "fetch", body |-> NoBody])]_vars
    /\ [](inflight # <<>> => LastMessage = UserMessage(inflight[1].query))

\* the draft " a" was sent as it stood and its request is unsettled
C6_Witness ==
    /\ inflight # <<>>
    /\ inflight[1].query = <<" ", "a">>
    /\ LastMessage = UserMessage(<<" ", "a">>)
    /\ query = <<>>

(***************************************************************************)
(* C7: handleSubmit with an empty or whitespace-only draft changes         *)
(* nothing, in every state.                                                *)
(***************************************************************************)
C7_BlankSubmitIsNoOp ==
    [][(Blank(query) /\ CallSubmit)
         => UNCHANGED <<mounted, query, messages, loading, error,
                        isRecordingLearn, recognitionLearn, recState,
                        autoStop, inflight>>]_vars

\* a whitespace-only draft was submitted while a request was pending
C7_Witness ==
    /\ lastSubmit = "ignored"
    /\ query = <<" ">>
    /\ loading
    /\ isRecordingLearn

(***************************************************************************)
(* C8: when the 3-second timer fires while dictation is still recording,   *)
(* the callback stops the recognition session.                             *)
(***************************************************************************)
C8_TimerStopsRecording ==
    [][(Len(autoStop') < Len(autoStop) /\ isRecordingLearn
          /\ recState = "listening")
         => recState' = "stopping"]_vars

(***************************************************************************)
(* C9: every header and every wrapped line of the export is written at a   *)
(* position not beyond pageHeight - margin; a write that starts a new page *)
(* is at the top margin.                                                   *)
(***************************************************************************)
C9_NoWriteBelowMargin ==
    pdfDoc.pc \notin {"idle"}
        => /\ pdfDoc.last.y <= PageHeight - Margin
           /\ pdfDoc.last.y >= Margin
           /\ pdfDoc.last.page = pdfDoc.page
           /\ pdfDoc.y = pdfDoc.last.y + LineHeight
                  \/ pdfDoc.y = pdfDoc.last.y + LineHeight + MessageGap
                  \/ pdfDoc.last.kind = "stamp"

\* the second message alone has forced two page breaks
C9_Witness ==
    /\ Len(pdfInput) = 2
    /\ pdfInput[1] = 1
    /\ pdfDoc.msg = 2
    /\ pdfDoc.page = 3
    /\ pdfDoc.last = Write("line", 3, Margin)

(***************************************************************************)
(* C10: loading is set exactly while a request is unsettled; every pending *)
(* state is left once the request settles; the error state is left only    *)
(* by a submit.                                                            *)
(***************************************************************************)
C10_Lifecycle ==
    /\ [](loading <=> inflight # <<>>)
    /\ [][(error # Null /\ error' = Null) => IssuedStep]_vars
    /\ loading ~> ~loading

\* Pending was left into Error
C10_Witness ==
    /\ ~loading
    /\ error = ErrorText
    /\ inflight = <<>>
    /\ LastMessage.role = "user"

====
